---- MODULE Spec2Model ----
(***************************************************************************)
(* The text field controller (MDCTextfieldFoundation) together with the    *)
(* three adapters it can run against: a host adapter implementing every    *)
(* capability of the adapter contract, the adapter MDCTextfield builds in  *)
(* getDefaultFoundation, and the bare defaultAdapter of a foundation       *)
(* constructed without arguments.  A handler is a sequence of adapter      *)
(* calls; it is modelled as the composition of one operator per call over  *)
(* a record of the mutable state, which also keeps the calls made (trace)  *)
(* and whether a TypeError ended the handler early (threw).                *)
(***************************************************************************)
EXTENDS Integers, Sequences, FiniteSets, TLC

VARIABLES
  wiring,                      \* which adapter the foundation was built with
  markup,                      \* the host page's elements, fixed for a run
  phase,                       \* lifecycle position of the instance
  rootClasses,                 \* class list of the host (root) element
  bottomLineClasses,           \* class list of the bottom-line element
  bottomLineStyle,             \* style attribute of the bottom-line element
  helptextAttrs,               \* aria-hidden and role of the help text
  iconTabindex,                \* tabindex attribute of the icon
  inputDisabled,               \* disabled state held by the input controller
  useCustomValidityChecking_,  \* foundation field
  receivedUserInput_,          \* foundation field
  isFocused_,                  \* foundation field read by transitionEnd_
  listeners,                   \* listeners attached to root, input, bottom line
  bottomLine_,                 \* MDCTextfield.bottomLine_
  helpText_,                   \* MDCTextfield.helpText_
  icon_,                       \* MDCTextfield.icon_
  trace,                       \* adapter and collaborator calls of the last operation
  threw,                       \* the last operation ended in a TypeError
  lastOp,                      \* the last operation and its arguments
  lastFocusEvt                 \* the most recent input focus/blur event

vars == <<wiring, markup, phase, rootClasses, bottomLineClasses, bottomLineStyle,
          helptextAttrs, iconTabindex, inputDisabled, useCustomValidityChecking_,
          receivedUserInput_, isFocused_, listeners, bottomLine_, helpText_, icon_,
          trace, threw, lastOp, lastFocusEvt>>

(***************************************************************************)
(* cssClasses and strings of ./constants and of the input controller.      *)
(***************************************************************************)
UPGRADED == "upgraded"
FOCUSED == "focused"
INVALID == "invalid"
DISABLED == "disabled"
BOTTOM_LINE_ACTIVE == "bottom-line-active"
HELPTEXT_PERSISTENT == "helptext-persistent"
HELPTEXT_VALIDATION_MSG == "helptext-validation-msg"
TEXT_FIELD_ICON == "icon"
ARIA_HIDDEN == "aria-hidden"
ROLE == "role"
FOCUS_EVENT == "focus"
BLUR_EVENT == "blur"
PRESSED_EVENT == "pressed"

Wirings == {"host", "component", "default"}

\* Pointer positions of a pressed event and left edges of its target.
MaxClientX == 1
MaxRectLeft == 1

B2S(b) == IF b THEN "true" ELSE "false"

\* JavaScript truthiness of the values the model stores in fields.
Truthy(v) == v \notin {"undefined", "null", "false", ""}

(***************************************************************************)
(* The mutable state as one record, and its write-back.                    *)
(***************************************************************************)
Cur ==
  [root |-> rootClasses, bottomLine |-> bottomLineClasses, style |-> bottomLineStyle,
   helptext |-> helptextAttrs, tabindex |-> iconTabindex, inputDisabled |-> inputDisabled,
   custom |-> useCustomValidityChecking_, received |-> receivedUserInput_,
   listeners |-> listeners, trace |-> <<>>, threw |-> FALSE]

Commit(s) ==
  /\ rootClasses' = s.root
  /\ bottomLineClasses' = s.bottomLine
  /\ bottomLineStyle' = s.style
  /\ helptextAttrs' = s.helptext
  /\ iconTabindex' = s.tabindex
  /\ inputDisabled' = s.inputDisabled
  /\ useCustomValidityChecking_' = s.custom
  /\ receivedUserInput_' = s.received
  /\ listeners' = s.listeners
  /\ trace' = s.trace
  /\ threw' = s.threw

Call(s, method, a, b) == [s EXCEPT !.trace = Append(@, <<method, a, b>>)]

\* Calling a method the adapter lacks, or a method of undefined.
Throw(s) == [s EXCEPT !.threw = TRUE]

(***************************************************************************)
(* The adapter: Object.assign(defaultAdapter, adapter).  A capability the  *)
(* supplied adapter does not define is the defaultAdapter's; one neither   *)
(* defines is undefined, and calling it throws.                            *)
(***************************************************************************)
addClass(s, className) ==
  IF s.threw THEN s
  ELSE LET t == Call(s, "addClass", className, "")
       IN IF wiring = "default" THEN t ELSE [t EXCEPT !.root = @ \cup {className}]

removeClass(s, className) ==
  IF s.threw THEN s
  ELSE LET t == Call(s, "removeClass", className, "")
       IN IF wiring = "default" THEN t ELSE [t EXCEPT !.root = @ \ {className}]

setIconAttr(s, name, value) ==
  IF s.threw THEN s
  ELSE LET t == Call(s, "setIconAttr", name, value)
       IN CASE wiring = "host" -> [t EXCEPT !.tabindex = value]
            [] wiring = "component" ->
                 IF Truthy(icon_) THEN [t EXCEPT !.tabindex = value] ELSE t
            [] OTHER -> t

eventTargetHasClass(target, className) ==
  wiring # "default" /\ target = "icon" /\ className = TEXT_FIELD_ICON

registerTextFieldInteractionHandler(s, evtType, handler) ==
  IF s.threw THEN s
  ELSE LET t == Call(s, "registerTextFieldInteractionHandler", evtType, handler)
       IN IF wiring = "default" THEN t
          ELSE [t EXCEPT !.listeners = @ \cup {<<"root", evtType, handler>>}]

deregisterTextFieldInteractionHandler(s, evtType, handler) ==
  IF s.threw THEN s
  ELSE LET t == Call(s, "deregisterTextFieldInteractionHandler", evtType, handler)
       IN IF wiring = "default" THEN t
          ELSE [t EXCEPT !.listeners = @ \ {<<"root", evtType, handler>>}]

\* MDCComponent.listen: addEventListener on the input element.
listen(s, evtType, handler) ==
  [s EXCEPT !.listeners = @ \cup {<<"input", evtType, handler>>}]

registerInputInteractionHandler(s, evtType, handler) ==
  IF s.threw THEN s
  ELSE IF wiring = "default" THEN Throw(s)
  ELSE LET t == Call(s, "registerInputInteractionHandler", evtType, handler)
       IN listen(t, evtType, handler)

deregisterInputInteractionHandler(s, evtType, handler) ==
  IF s.threw THEN s
  ELSE IF wiring = "default" THEN Throw(s)
  ELSE LET t == Call(s, "deregisterInputInteractionHandler", evtType, handler)
       IN IF wiring = "component" THEN listen(t, evtType, handler)
          ELSE [t EXCEPT !.listeners = @ \ {<<"input", evtType, handler>>}]

registerTransitionEndHandler(s, handler) ==
  IF s.threw THEN s
  ELSE LET t == Call(s, "registerTransitionEndHandler", "transitionend", handler)
       IN IF wiring = "host"
          THEN [t EXCEPT !.listeners = @ \cup {<<"bottomLine", "transitionend", handler>>}]
          ELSE t

deregisterTransitionEndHandler(s, handler) ==
  IF s.threw THEN s
  ELSE LET t == Call(s, "deregisterTransitionEndHandler", "transitionend", handler)
       IN IF wiring = "host"
          THEN [t EXCEPT !.listeners = @ \ {<<"bottomLine", "transitionend", handler>>}]
          ELSE t

notifyIconAction(s) ==
  IF s.threw THEN s ELSE Call(s, "notifyIconAction", "", "")

addClassToBottomLine(s, className) ==
  IF s.threw THEN s
  ELSE LET t == Call(s, "addClassToBottomLine", className, "")
       IN IF wiring = "host" THEN [t EXCEPT !.bottomLine = @ \cup {className}] ELSE t

removeClassFromBottomLine(s, className) ==
  IF s.threw THEN s
  ELSE LET t == Call(s, "removeClassFromBottomLine", className, "")
       IN IF wiring = "host" THEN [t EXCEPT !.bottomLine = @ \ {className}] ELSE t

setBottomLineAttr(s, name, value) ==
  IF s.threw THEN s
  ELSE LET t == Call(s, "setBottomLineAttr", name, "")
       IN IF wiring = "host" THEN [t EXCEPT !.style = value] ELSE t

helptextHasClass(className) ==
  wiring = "host" /\ className \in markup.helptextClasses

setHelptextAttr(s, name, value) ==
  IF s.threw THEN s
  ELSE LET t == Call(s, "setHelptextAttr", name, value)
       IN IF wiring = "host" THEN [t EXCEPT !.helptext[name] = value] ELSE t

removeHelptextAttr(s, name) ==
  IF s.threw THEN s
  ELSE LET t == Call(s, "removeHelptextAttr", name, "")
       IN IF wiring = "host" THEN [t EXCEPT !.helptext[name] = "none"] ELSE t

getInputFoundation == IF wiring = "default" THEN "undefined" ELSE "input"

getLabelFoundation == IF wiring = "default" THEN "undefined" ELSE "label"

getBottomLineFoundation == IF Truthy(bottomLine_) THEN "foundation" ELSE "null"

getHelpTextFoundation == IF Truthy(helpText_) THEN "foundation" ELSE "null"

(***************************************************************************)
(* The input and label controllers, as far as the foundation uses them.    *)
(* env is what the input element reports at the time of the call.          *)
(***************************************************************************)
Envs == [value : {"", "x"}, badInput : BOOLEAN, valid : BOOLEAN]

InputGetValue(env) == env.value

InputIsBadInput(env) == env.badInput

InputCheckValidity(env) == env.valid

\* The input controller offers isDisabled() and setDisabled(); it has no
\* property named disabled.
InputDisabledProperty == "undefined"

InputIsDisabled(s) == s.inputDisabled

InputSetDisabled(s, disabled) ==
  IF s.threw THEN s
  ELSE IF getInputFoundation = "undefined" THEN Throw(s)
  ELSE [Call(s, "input.setDisabled", B2S(disabled), "") EXCEPT !.inputDisabled = disabled]

LabelCall(s, method, arg) ==
  IF s.threw THEN s
  ELSE IF getLabelFoundation = "undefined" THEN Throw(s)
  ELSE Call(s, method, arg, "")

(***************************************************************************)
(* MDCTextfieldFoundation.  The five handler values are created once in    *)
(* the constructor; a handler is named by the field that holds it.         *)
(***************************************************************************)
\* A variant that floats the label whatever the input holds.
init_AlwaysFloats(s, env) ==
  LET s1 == addClass(s, UPGRADED)
      s2 == IF getInputFoundation = "undefined" THEN Throw(s1)
            ELSE LabelCall(s1, "floatLabel", "")
      s3 == registerInputInteractionHandler(s2, FOCUS_EVENT, "inputFocusHandler_")
      s4 == registerInputInteractionHandler(s3, BLUR_EVENT, "inputBlurHandler_")
      s5 == registerInputInteractionHandler(s4, PRESSED_EVENT, "setPointerXOffset_")
      s6 == registerTextFieldInteractionHandler(s5, "click", "textFieldInteractionHandler_")
      s7 == registerTextFieldInteractionHandler(s6, "keydown", "textFieldInteractionHandler_")
  IN registerTransitionEndHandler(s7, "transitionEndHandler_")

init(s, env) ==
  LET s1 == addClass(s, UPGRADED)
      s2 == IF getInputFoundation = "undefined" THEN Throw(s1)
            ELSE IF Truthy(InputGetValue(env)) THEN LabelCall(s1, "floatLabel", "")
            ELSE s1
      s3 == registerInputInteractionHandler(s2, FOCUS_EVENT, "inputFocusHandler_")
      s4 == registerInputInteractionHandler(s3, BLUR_EVENT, "inputBlurHandler_")
      s5 == registerInputInteractionHandler(s4, PRESSED_EVENT, "setPointerXOffset_")
      s6 == registerTextFieldInteractionHandler(s5, "click", "textFieldInteractionHandler_")
      s7 == registerTextFieldInteractionHandler(s6, "keydown", "textFieldInteractionHandler_")
  IN registerTransitionEndHandler(s7, "transitionEndHandler_")

\* A variant that forgets to deregister the pressed handler.
destroy_SkipsPressed(s) ==
  LET s1 == removeClass(s, UPGRADED)
      s2 == deregisterInputInteractionHandler(s1, FOCUS_EVENT, "inputFocusHandler_")
      s3 == deregisterInputInteractionHandler(s2, BLUR_EVENT, "inputBlurHandler_")
      s5 == deregisterTextFieldInteractionHandler(s3, "click", "textFieldInteractionHandler_")
      s6 == deregisterTextFieldInteractionHandler(s5, "keydown", "textFieldInteractionHandler_")
  IN deregisterTransitionEndHandler(s6, "transitionEndHandler_")

destroy(s) ==
  LET s1 == removeClass(s, UPGRADED)
      s2 == deregisterInputInteractionHandler(s1, FOCUS_EVENT, "inputFocusHandler_")
      s3 == deregisterInputInteractionHandler(s2, BLUR_EVENT, "inputBlurHandler_")
      s4 == deregisterInputInteractionHandler(s3, PRESSED_EVENT, "setPointerXOffset_")
      s5 == deregisterTextFieldInteractionHandler(s4, "click", "textFieldInteractionHandler_")
      s6 == deregisterTextFieldInteractionHandler(s5, "keydown", "textFieldInteractionHandler_")
  IN deregisterTransitionEndHandler(s6, "transitionEndHandler_")

\* A variant that forgets the legacy key code.
eventTriggersNotification_NoKeyCode(evt) ==
  evt.type = "click" \/ evt.key = "Enter"

\* type === 'click' || evt.key === 'Enter' || evt.keyCode === 13
eventTriggersNotification(evt) ==
  evt.type = "click" \/ evt.key = "Enter" \/ evt.keyCode = 13

handleTextFieldInteraction_(s, evt) ==
  IF getInputFoundation = "undefined" THEN Throw(s)
  ELSE IF Truthy(InputDisabledProperty) THEN s
  ELSE LET s1 == [s EXCEPT !.received = "true"]
           targetIsIcon == eventTargetHasClass(evt.target, TEXT_FIELD_ICON)
       IN IF targetIsIcon /\ eventTriggersNotification(evt)
          THEN notifyIconAction(s1)
          ELSE s1

showHelptext_(s) == removeHelptextAttr(s, ARIA_HIDDEN)

hideHelptext_(s) == setHelptextAttr(s, ARIA_HIDDEN, "true")

activateFocus_(s) ==
  LET s1 == addClass(s, FOCUSED)
      s2 == addClassToBottomLine(s1, BOTTOM_LINE_ACTIVE)
      s3 == LabelCall(s2, "floatLabel", "")
  IN showHelptext_(s3)

\* normalizedX = evtCoords.x - targetClientRect.left
setBottomLineTransformOrigin_(s, clientX, left) ==
  setBottomLineAttr(s, "style", <<clientX - left>>)

\* A variant that acts on the end of any transition.
transitionEnd_AnyProperty(s, propertyName) ==
  IF ~Truthy(isFocused_)
  THEN removeClassFromBottomLine(s, BOTTOM_LINE_ACTIVE)
  ELSE s

transitionEnd_(s, propertyName) ==
  IF propertyName = "opacity" /\ ~Truthy(isFocused_)
  THEN removeClassFromBottomLine(s, BOTTOM_LINE_ACTIVE)
  ELSE s

\* A variant that shows the validation message whatever the validity.
updateHelptext_IgnoresValidity(s, isValid) ==
  LET helptextIsPersistent == helptextHasClass(HELPTEXT_PERSISTENT)
      helptextIsValidationMsg == helptextHasClass(HELPTEXT_VALIDATION_MSG)
      validationMsgNeedsDisplay == helptextIsValidationMsg
      s1 == IF validationMsgNeedsDisplay
            THEN setHelptextAttr(s, ROLE, "alert")
            ELSE removeHelptextAttr(s, ROLE)
  IN IF helptextIsPersistent \/ validationMsgNeedsDisplay
     THEN s1
     ELSE hideHelptext_(s1)

updateHelptext_(s, isValid) ==
  LET helptextIsPersistent == helptextHasClass(HELPTEXT_PERSISTENT)
      helptextIsValidationMsg == helptextHasClass(HELPTEXT_VALIDATION_MSG)
      validationMsgNeedsDisplay == helptextIsValidationMsg /\ ~isValid
      s1 == IF validationMsgNeedsDisplay
            THEN setHelptextAttr(s, ROLE, "alert")
            ELSE removeHelptextAttr(s, ROLE)
  IN IF helptextIsPersistent \/ validationMsgNeedsDisplay
     THEN s1
     ELSE hideHelptext_(s1)

changeValidity_(s, isValid) ==
  LET s1 == LabelCall(s, "changeValidity", B2S(isValid))
      s2 == IF isValid THEN removeClass(s1, INVALID) ELSE addClass(s1, INVALID)
  IN updateHelptext_(s2, isValid)

\* A variant that leaves the focused class on the host.
deactivateFocus_KeepsFocused(s, env) ==
  LET hasValidInput == ~Truthy(InputGetValue(env)) /\ ~InputIsBadInput(env)
      s2 == LabelCall(s, "deactivateFocus", B2S(hasValidInput))
  IN IF ~s2.custom
     THEN changeValidity_(s2, InputCheckValidity(env))
     ELSE s2

\* A variant that recomputes native validity on every blur.
deactivateFocus_AlwaysNative(s, env) ==
  LET s1 == removeClass(s, FOCUSED)
      hasValidInput == ~Truthy(InputGetValue(env)) /\ ~InputIsBadInput(env)
      s2 == LabelCall(s1, "deactivateFocus", B2S(hasValidInput))
  IN changeValidity_(s2, InputCheckValidity(env))

\* A variant that never recomputes native validity.
deactivateFocus_NeverNative(s, env) ==
  LET s1 == removeClass(s, FOCUSED)
      hasValidInput == ~Truthy(InputGetValue(env)) /\ ~InputIsBadInput(env)
  IN LabelCall(s1, "deactivateFocus", B2S(hasValidInput))

\* A variant that computes hasValidInput from the value alone.
deactivateFocus_IgnoresBadInput(s, env) ==
  LET s1 == removeClass(s, FOCUSED)
      hasValidInput == ~Truthy(InputGetValue(env))
      s2 == LabelCall(s1, "deactivateFocus", B2S(hasValidInput))
  IN IF ~s2.custom
     THEN changeValidity_(s2, InputCheckValidity(env))
     ELSE s2

deactivateFocus_(s, env) ==
  LET s1 == removeClass(s, FOCUSED)
      hasValidInput == ~Truthy(InputGetValue(env)) /\ ~InputIsBadInput(env)
      s2 == LabelCall(s1, "deactivateFocus", B2S(hasValidInput))
  IN IF ~s2.custom
     THEN changeValidity_(s2, InputCheckValidity(env))
     ELSE s2

\* A variant that also hides the help text of a field it disables.
setDisabled_HidesHelptext(s, disabled) ==
  LET s1 == InputSetDisabled(s, disabled)
  IN IF disabled
     THEN hideHelptext_(setIconAttr(addClass(s1, DISABLED), "tabindex", "-1"))
     ELSE setIconAttr(removeClass(s1, DISABLED), "tabindex", "0")

\* A variant that writes the disabling tabindex on both branches.
setDisabled_TabindexStuck(s, disabled) ==
  LET s1 == InputSetDisabled(s, disabled)
  IN IF disabled
     THEN setIconAttr(addClass(s1, DISABLED), "tabindex", "-1")
     ELSE setIconAttr(removeClass(s1, DISABLED), "tabindex", "-1")

setDisabled(s, disabled) ==
  LET s1 == InputSetDisabled(s, disabled)
  IN IF disabled
     THEN setIconAttr(addClass(s1, DISABLED), "tabindex", "-1")
     ELSE setIconAttr(removeClass(s1, DISABLED), "tabindex", "0")

setValid(s, isValid) ==
  changeValidity_([s EXCEPT !.custom = TRUE], isValid)

(***************************************************************************)
(* The host page and the initial state.                                    *)
(***************************************************************************)
HelptextClassSets == SUBSET {HELPTEXT_PERSISTENT, HELPTEXT_VALIDATION_MSG}

\* A host adapter is written against a page that has every element, and
\* reads the help text's classes.  The component is attached to pages with
\* or without the optional elements; its adapter has no helptextHasClass of
\* its own, so the help text's classes are left out of its pages.
Markups(w) ==
  CASE w = "host" ->
         [hasBottomLineEl : {TRUE}, isTextarea : {FALSE}, hasHelpTextEl : {TRUE},
          hasIcon : {TRUE}, helptextClasses : HelptextClassSets]
    [] w = "component" ->
         [hasBottomLineEl : BOOLEAN, isTextarea : BOOLEAN, hasHelpTextEl : BOOLEAN,
          hasIcon : BOOLEAN, helptextClasses : {{}}]
    [] OTHER ->
         [hasBottomLineEl : {FALSE}, isTextarea : {FALSE}, hasHelpTextEl : {FALSE},
          hasIcon : {FALSE}, helptextClasses : {{}}]

Init ==
  /\ wiring \in Wirings
  /\ markup \in Markups(wiring)
  /\ phase = IF wiring = "component" THEN "new" ELSE "constructed"
  /\ rootClasses = {}
  /\ bottomLineClasses = {}
  /\ bottomLineStyle = <<>>
  /\ helptextAttrs \in
       {[a \in {ARIA_HIDDEN, ROLE} |-> IF a = ARIA_HIDDEN THEN h ELSE "none"] :
          h \in IF wiring = "host" THEN {"true", "none"} ELSE {"none"}}
  /\ iconTabindex = IF markup.hasIcon THEN "0" ELSE "none"
  /\ inputDisabled = FALSE
  /\ useCustomValidityChecking_ = FALSE
  /\ receivedUserInput_ = "undefined"
  /\ isFocused_ = "undefined"
  /\ listeners = {}
  /\ bottomLine_ = "undefined"
  /\ helpText_ = "undefined"
  /\ icon_ = "undefined"
  /\ trace = <<>>
  /\ threw = FALSE
  /\ lastOp = [op |-> "new"]
  /\ lastFocusEvt = "none"

Fixed == UNCHANGED <<wiring, markup, isFocused_>>

NoComponentChange == UNCHANGED <<bottomLine_, helpText_, icon_>>

(***************************************************************************)
(* Operations.                                                             *)
(***************************************************************************)
\* new MDCTextfield(root): MDCComponent's constructor runs initialize(),
\* getDefaultFoundation() and foundation.init().  MDCTextfieldBottomLine is
\* constructed around whatever querySelector returned; around null it either
\* throws or yields a component with no element.
Construct(env, nullRootOutcome) ==
  /\ wiring = "component" /\ phase = "new"
  /\ LET nullBottomLine == ~markup.isTextarea /\ ~markup.hasBottomLineEl
         fails == nullBottomLine /\ nullRootOutcome = "throws"
         s == IF fails THEN Throw(Cur) ELSE init(Cur, env)
     IN /\ Commit(s)
        /\ helpText_' = IF markup.hasHelpTextEl THEN "component" ELSE "undefined"
        /\ bottomLine_' = CASE markup.isTextarea -> "undefined"
                            [] fails -> "undefined"
                            [] OTHER -> "component"
        /\ icon_' = IF fails THEN "undefined"
                    ELSE IF markup.hasIcon THEN "element" ELSE "null"
        /\ phase' = IF fails THEN "failed" ELSE "initialized"
  /\ lastOp' = [op |-> "construct", value |-> env.value]
  /\ UNCHANGED lastFocusEvt
  /\ Fixed

DoInit(env) ==
  /\ wiring # "component" /\ phase = "constructed"
  /\ LET s == init(Cur, env)
     IN Commit(s) /\ phase' = IF s.threw THEN phase ELSE "initialized"
  /\ lastOp' = [op |-> "init", value |-> env.value]
  /\ UNCHANGED lastFocusEvt
  /\ NoComponentChange /\ Fixed

\* foundation.destroy(); for the component, MDCTextfield.destroy(), which
\* destroys the sub-components and then the foundation.
DoDestroy ==
  /\ phase \in {"constructed", "initialized", "destroyed"}
  /\ LET s == destroy(Cur)
     IN Commit(s) /\ phase' = IF s.threw THEN phase ELSE "destroyed"
  /\ lastOp' = [op |-> "destroy", before |-> phase]
  /\ UNCHANGED lastFocusEvt
  /\ NoComponentChange /\ Fixed

InputFocus ==
  /\ <<"input", FOCUS_EVENT, "inputFocusHandler_">> \in listeners
  /\ Commit(activateFocus_(Cur))
  /\ lastOp' = [op |-> "focus"]
  /\ lastFocusEvt' = "focus"
  /\ UNCHANGED phase /\ NoComponentChange /\ Fixed

InputBlur(env) ==
  /\ <<"input", BLUR_EVENT, "inputBlurHandler_">> \in listeners
  /\ Commit(deactivateFocus_(Cur, env))
  /\ lastOp' = [op |-> "blur", env |-> env]
  /\ lastFocusEvt' = "blur"
  /\ UNCHANGED phase /\ NoComponentChange /\ Fixed

InputPressed(clientX, left) ==
  /\ <<"input", PRESSED_EVENT, "setPointerXOffset_">> \in listeners
  /\ Commit(setBottomLineTransformOrigin_(Cur, clientX, left))
  /\ lastOp' = [op |-> "pressed", clientX |-> clientX, left |-> left]
  /\ UNCHANGED <<phase, lastFocusEvt>> /\ NoComponentChange /\ Fixed

InteractionEvents ==
  LET targets == IF markup.hasIcon THEN {"icon", "input"} ELSE {"input"}
  IN [type : {"click"}, key : {"undefined"}, keyCode : {0}, target : targets]
     \cup [type : {"keydown"}, key : {"Enter", "a", "undefined"}, keyCode : {13, 65},
           target : targets]

TextFieldInteraction(evt) ==
  /\ <<"root", evt.type, "textFieldInteractionHandler_">> \in listeners
  /\ Commit(handleTextFieldInteraction_(Cur, evt))
  /\ lastOp' = [op |-> "interaction", evt |-> evt]
  /\ UNCHANGED <<phase, lastFocusEvt>> /\ NoComponentChange /\ Fixed

TransitionEnd(propertyName) ==
  /\ <<"bottomLine", "transitionend", "transitionEndHandler_">> \in listeners
  /\ Commit(transitionEnd_(Cur, propertyName))
  /\ lastOp' = [op |-> "transitionEnd", propertyName |-> propertyName]
  /\ UNCHANGED <<phase, lastFocusEvt>> /\ NoComponentChange /\ Fixed

SetDisabled(disabled) ==
  /\ phase \in {"constructed", "initialized", "destroyed"}
  /\ Commit(setDisabled(Cur, disabled))
  /\ lastOp' = IF disabled
               THEN [op |-> "setDisabled", arg |-> TRUE, before |-> Cur]
               ELSE IF lastOp.op = "setDisabled" /\ lastOp.arg /\ ~threw
               THEN [op |-> "setDisabled", arg |-> FALSE, afterDisable |-> TRUE,
                     start |-> lastOp.before]
               ELSE [op |-> "setDisabled", arg |-> FALSE, afterDisable |-> FALSE]
  /\ UNCHANGED <<phase, lastFocusEvt>> /\ NoComponentChange /\ Fixed

SetValid(isValid) ==
  /\ phase \in {"constructed", "initialized", "destroyed"}
  /\ Commit(setValid(Cur, isValid))
  /\ lastOp' = [op |-> "setValid", arg |-> isValid]
  /\ UNCHANGED <<phase, lastFocusEvt>> /\ NoComponentChange /\ Fixed

Next ==
  \/ \E env \in Envs, o \in {"throws", "wraps-null"} : Construct(env, o)
  \/ \E env \in Envs : DoInit(env)
  \/ DoDestroy
  \/ InputFocus
  \/ \E env \in Envs : InputBlur(env)
  \/ \E x \in 0..MaxClientX, l \in 0..MaxRectLeft : InputPressed(x, l)
  \/ \E evt \in InteractionEvents : TextFieldInteraction(evt)
  \/ \E p \in {"opacity", "transform"} : TransitionEnd(p)
  \/ \E d \in BOOLEAN : SetDisabled(d)
  \/ \E v \in BOOLEAN : SetValid(v)

Spec == Init /\ [][Next]_vars

(***************************************************************************)
(* Properties.                                                             *)
(***************************************************************************)
CountCalls(tr, method) == Cardinality({i \in 1..Len(tr) : tr[i][1] = method})

HasCall(tr, call) == \E i \in 1..Len(tr) : tr[i] = call

\* C1: the bottom-line active class is never removed while the field is
\* focused: a step removes it only when the most recent focus/blur event
\* was a blur (or there was none), and a transition-end event removes it
\* only if its property is opacity.
C1_ActiveRemovedOnlyWhenUnfocused ==
  [][(BOTTOM_LINE_ACTIVE \in bottomLineClasses
        /\ BOTTOM_LINE_ACTIVE \notin bottomLineClasses')
      => /\ lastFocusEvt # "focus"
         /\ lastOp'.op = "transitionEnd" => lastOp'.propertyName = "opacity"]_vars

\* C2: the host carries the focused class if and only if the most recent
\* input focus/blur event was a focus, whatever other operations interleave.
C2_FocusedIffLastEventFocus ==
  (FOCUSED \in rootClasses) <=> (lastFocusEvt = "focus")

\* A blur that followed a focus (the bottom line is still active) has
\* taken the focused class off the host.
C2_Witness ==
  /\ lastOp.op = "blur"
  /\ BOTTOM_LINE_ACTIVE \in bottomLineClasses
  /\ FOCUSED \notin rootClasses

\* C3: after init() and destroy() through the component's adapter no
\* listener is left attached to the root or to the input.
C3_NoListenersAfterDestroy ==
  (wiring = "component" /\ phase = "destroyed") => listeners = {}

\* C4: while the input is disabled, handling a click or keydown changes
\* nothing: receivedUserInput is not set, no notifyIconAction is called and
\* the rest of the state stays as it was.
C4_DisabledInteractionIsNoOp ==
  [][(inputDisabled /\ lastOp'.op = "interaction")
      => /\ receivedUserInput_' = receivedUserInput_
         /\ CountCalls(trace', "notifyIconAction") = 0
         /\ UNCHANGED <<rootClasses, bottomLineClasses, bottomLineStyle, helptextAttrs,
                        iconTabindex, inputDisabled, useCustomValidityChecking_,
                        listeners>>]_vars

\* C5: with the input enabled, a handled click/keydown calls
\* notifyIconAction once if its target has the icon class and it is a click,
\* or its key is Enter, or its key code is 13; and not at all otherwise.
C5_NotifyExactlyWhenIconTriggered ==
  (lastOp.op = "interaction" /\ ~inputDisabled)
    => CountCalls(trace, "notifyIconAction") =
         IF /\ lastOp.evt.target = "icon"
            /\ \/ lastOp.evt.type = "click"
               \/ lastOp.evt.key = "Enter"
               \/ lastOp.evt.keyCode = 13
         THEN 1 ELSE 0

\* A keydown on the icon with no Enter key but the legacy key code 13 has
\* notified once.
C5_Witness ==
  /\ lastOp.op = "interaction" /\ ~inputDisabled
  /\ lastOp.evt = [type |-> "keydown", key |-> "undefined", keyCode |-> 13, target |-> "icon"]
  /\ CountCalls(trace, "notifyIconAction") = 1

\* C6: custom validity is sticky: a completed setValid(v) leaves the host
\* invalid class present iff v is false, and once setValid has been called
\* no operation other than setValid changes the invalid class, whatever the
\* native validity of the input on later blurs.
C6_CustomValiditySticky ==
  /\ []((lastOp.op = "setValid" /\ ~threw) => ((INVALID \in rootClasses) <=> ~lastOp.arg))
  /\ [][(useCustomValidityChecking_ /\ lastOp'.op # "setValid")
          => ((INVALID \in rootClasses') <=> (INVALID \in rootClasses))]_vars

\* After setValid(false), a blur of a natively valid input has left the
\* invalid class in place.
C6_Witness ==
  /\ useCustomValidityChecking_
  /\ lastOp.op = "blur" /\ lastOp.env.valid
  /\ INVALID \in rootClasses

\* C7: after every blur the help text is hidden unless it is persistent or
\* it is the validation message of an invalid field; and a blur never hides
\* a persistent help text.
C7_HelptextHiddenAfterBlur ==
  (wiring = "host" /\ lastOp.op = "blur")
    => /\ (/\ HELPTEXT_PERSISTENT \notin markup.helptextClasses
           /\ ~(HELPTEXT_VALIDATION_MSG \in markup.helptextClasses
                  /\ INVALID \in rootClasses))
          => helptextAttrs[ARIA_HIDDEN] = "true"
       /\ HELPTEXT_PERSISTENT \in markup.helptextClasses
          => ~HasCall(trace, <<"setHelptextAttr", ARIA_HIDDEN, "true">>)

\* C8: after every completed run of the validity-change procedure the help
\* text has role alert iff it is a validation message and the field is
\* invalid, and a help text with role alert is visible.
C8_AlertIffInvalidAndVisible ==
  (CountCalls(trace, "changeValidity") > 0 /\ ~threw /\ wiring = "host")
    => /\ (helptextAttrs[ROLE] = "alert")
            <=> (HELPTEXT_VALIDATION_MSG \in markup.helptextClasses
                   /\ INVALID \in rootClasses)
       /\ helptextAttrs[ROLE] = "alert" => helptextAttrs[ARIA_HIDDEN] = "none"

\* C9: destroy() completes without error, whether or not init() was called
\* before, with or without a host-supplied adapter, and when called twice.
C9_DestroyNeverThrows ==
  lastOp.op = "destroy" => ~threw

\* C10: on a page without bottom line, help text or icon no operation of
\* the component throws, the absent element is not mutated, and the
\* adapter reports an absent bottom line or help text as null.
C10_AbsentCollaboratorsTolerated ==
  wiring = "component"
    => /\ ~threw
       /\ ~markup.hasBottomLineEl
            => (getBottomLineFoundation = "null"
                  /\ bottomLineClasses = {} /\ bottomLineStyle = <<>>)
       /\ ~markup.hasHelpTextEl
            => (getHelpTextFoundation = "null"
                  /\ helptextAttrs = [a \in {ARIA_HIDDEN, ROLE} |-> "none"])
       /\ ~markup.hasIcon => iconTabindex = "none"

\* C11: a completed init() asks the label to float exactly once when the
\* input holds a non-empty value and not at all when it is empty, and in
\* both cases leaves the upgraded class on the host.
C11_InitFloatsPrefilledLabelOnce ==
  (lastOp.op \in {"init", "construct"} /\ ~threw)
    => /\ CountCalls(trace, "floatLabel") = IF lastOp.value = "" THEN 0 ELSE 1
       /\ UPGRADED \in rootClasses

\* init() on a pre-filled input has upgraded the host and floated the label once.
C11_Witness ==
  /\ lastOp.op = "init" /\ ~threw /\ lastOp.value = "x"
  /\ CountCalls(trace, "floatLabel") = 1
  /\ UPGRADED \in rootClasses

\* C12: setDisabled(true) followed at once by setDisabled(false) is a round
\* trip: the host has no disabled class, the icon's tabindex is 0, the input
\* controller is enabled, and everything else is as it was before the two
\* calls (lastOp.start is the state before the first of them).
C12_SetDisabledRoundTrip ==
  (lastOp.op = "setDisabled" /\ ~lastOp.arg /\ lastOp.afterDisable /\ ~threw)
    => /\ DISABLED \notin rootClasses
       /\ iconTabindex = IF markup.hasIcon THEN "0" ELSE "none"
       /\ ~inputDisabled
       /\ rootClasses = lastOp.start.root \ {DISABLED}
       /\ bottomLineClasses = lastOp.start.bottomLine
       /\ bottomLineStyle = lastOp.start.style
       /\ helptextAttrs = lastOp.start.helptext
       /\ useCustomValidityChecking_ = lastOp.start.custom
       /\ receivedUserInput_ = lastOp.start.received
       /\ listeners = lastOp.start.listeners

\* The round trip was made on a focused, invalid field that was already
\* disabled before it.
C12_Witness ==
  /\ lastOp.op = "setDisabled" /\ ~lastOp.arg /\ lastOp.afterDisable /\ ~threw
  /\ DISABLED \in lastOp.start.root
  /\ {FOCUSED, INVALID} \subseteq rootClasses
  /\ iconTabindex = "0"

\* The registration a call of the adapter makes (channel, event type,
\* handler), or <<>> for any other call; likewise for deregistrations.
RegOf(call) ==
  CASE call[1] = "registerInputInteractionHandler" -> <<"input", call[2], call[3]>>
    [] call[1] = "registerTextFieldInteractionHandler" -> <<"textField", call[2], call[3]>>
    [] call[1] = "registerTransitionEndHandler" -> <<"transitionEnd", call[2], call[3]>>
    [] OTHER -> <<>>

DeregOf(call) ==
  CASE call[1] = "deregisterInputInteractionHandler" -> <<"input", call[2], call[3]>>
    [] call[1] = "deregisterTextFieldInteractionHandler" -> <<"textField", call[2], call[3]>>
    [] call[1] = "deregisterTransitionEndHandler" -> <<"transitionEnd", call[2], call[3]>>
    [] OTHER -> <<>>

\* The multiset of the registrations (of the deregistrations) in a trace.
RegBag(tr) ==
  [x \in {RegOf(tr[i]) : i \in 1..Len(tr)} \ {<<>>}
     |-> Cardinality({i \in 1..Len(tr) : RegOf(tr[i]) = x})]

DeregBag(tr) ==
  [x \in {DeregOf(tr[i]) : i \in 1..Len(tr)} \ {<<>>}
     |-> Cardinality({i \in 1..Len(tr) : DeregOf(tr[i]) = x})]

\* One registration for each of the six (channel, event, handler) triples,
\* the handler being the value the constructor stored.
SixRegistrations ==
  [x \in {<<"input", "focus", "inputFocusHandler_">>,
          <<"input", "blur", "inputBlurHandler_">>,
          <<"input", "pressed", "setPointerXOffset_">>,
          <<"textField", "click", "textFieldInteractionHandler_">>,
          <<"textField", "keydown", "textFieldInteractionHandler_">>,
          <<"transitionEnd", "transitionend", "transitionEndHandler_">>} |-> 1]

\* C13: at the adapter boundary destroy() is the inverse of init(): a
\* completed init() issues exactly the six registrations, a completed
\* destroy() issues the same multiset as deregistrations with the same
\* handler values, and destroy() leaves the host without the upgraded class.
C13_DestroyInverseOfInit ==
  /\ (lastOp.op \in {"init", "construct"} /\ ~threw)
       => (RegBag(trace) = SixRegistrations /\ UPGRADED \in rootClasses)
  /\ (lastOp.op = "destroy" /\ ~threw)
       => /\ DeregBag(trace) = SixRegistrations
          /\ HasCall(trace, <<"removeClass", UPGRADED, "">>)
          /\ UPGRADED \notin rootClasses

\* destroy() has completed on an initialized instance.
C13_Witness ==
  /\ lastOp.op = "destroy" /\ lastOp.before = "initialized" /\ ~threw
  /\ DeregBag(trace) = SixRegistrations
  /\ UPGRADED \notin rootClasses

\* C14: while setValid has never been called, a completed blur leaves the
\* invalid class on the host iff checkValidity() returned false, and has
\* notified the label controller of that same validity.
C14_BlurUsesNativeValidity ==
  (lastOp.op = "blur" /\ ~useCustomValidityChecking_ /\ ~threw)
    => /\ (INVALID \in rootClasses) <=> ~lastOp.env.valid
       /\ HasCall(trace, <<"changeValidity", B2S(lastOp.env.valid), "">>)
       /\ CountCalls(trace, "changeValidity") = 1

\* A blur of a natively valid input has removed the invalid class and told
\* the label controller that the field is valid.
C14_Witness ==
  /\ lastOp.op = "blur" /\ ~useCustomValidityChecking_ /\ lastOp.env.valid
  /\ INVALID \notin rootClasses
  /\ HasCall(trace, <<"removeClass", INVALID, "">>)
  /\ HasCall(trace, <<"changeValidity", "true", "">>)

\* C16: every completed blur calls the label controller's deactivateFocus
\* exactly once, with hasValidInput = (value is empty) and (input is not
\* bad), and before the validity-change procedure of the same blur.
C16_LabelDeactivateFocusOnBlur ==
  (lastOp.op = "blur" /\ ~threw)
    => /\ CountCalls(trace, "deactivateFocus") = 1
       /\ HasCall(trace, <<"deactivateFocus",
                           B2S(lastOp.env.value = "" /\ ~lastOp.env.badInput), "">>)
       /\ \A i, j \in 1..Len(trace) :
            (trace[i][1] = "deactivateFocus" /\ trace[j][1] = "changeValidity") => i < j

\* A blur of an empty input with bad input told the label the input is not
\* valid, and then ran the validity-change procedure.
C16_Witness ==
  /\ lastOp.op = "blur" /\ ~threw
  /\ lastOp.env.value = "" /\ lastOp.env.badInput
  /\ HasCall(trace, <<"deactivateFocus", "false", "">>)
  /\ CountCalls(trace, "changeValidity") = 1

\* C15: with every capability wired, a focus event leaves the host focused,
\* the bottom line active, the label asked to float once and the help text
\* without aria-hidden; and the bottom line then stays active until the
\* next blur.
C15_FocusActivatesUntilBlur ==
  [][wiring = "host"
      => /\ lastOp'.op = "focus"
              => /\ FOCUSED \in rootClasses'
                 /\ BOTTOM_LINE_ACTIVE \in bottomLineClasses'
                 /\ CountCalls(trace', "floatLabel") = 1
                 /\ helptextAttrs'[ARIA_HIDDEN] = "none"
         /\ (/\ lastFocusEvt = "focus"
             /\ BOTTOM_LINE_ACTIVE \in bottomLineClasses
             /\ lastOp'.op # "blur")
              => BOTTOM_LINE_ACTIVE \in bottomLineClasses']_vars

\* C17: a transition-end event whose property is not opacity changes
\* nothing; a blur does not remove the bottom-line active class; the class
\* is removed by nothing but a transition-end event with property opacity,
\* and such an event after a blur leaves the class absent.
C17_ActiveRemovedByOpacityTransitionEnd ==
  [][/\ (lastOp'.op = "transitionEnd" /\ lastOp'.propertyName # "opacity")
          => /\ UNCHANGED <<phase, rootClasses, bottomLineClasses, bottomLineStyle,
                            helptextAttrs, iconTabindex, inputDisabled,
                            useCustomValidityChecking_, receivedUserInput_, listeners,
                            lastFocusEvt>>
             /\ trace' = <<>>
     /\ (lastOp'.op = "blur" /\ BOTTOM_LINE_ACTIVE \in bottomLineClasses)
          => BOTTOM_LINE_ACTIVE \in bottomLineClasses'
     /\ (BOTTOM_LINE_ACTIVE \in bottomLineClasses
           /\ BOTTOM_LINE_ACTIVE \notin bottomLineClasses')
          => (lastOp'.op = "transitionEnd" /\ lastOp'.propertyName = "opacity")
     /\ (lastOp'.op = "transitionEnd" /\ lastOp'.propertyName = "opacity"
           /\ lastFocusEvt = "blur")
          => BOTTOM_LINE_ACTIVE \notin bottomLineClasses']_vars

\* After focus and blur, a transition-end event for another property has
\* left the bottom line active.
C17_Witness ==
  /\ lastOp.op = "transitionEnd" /\ lastOp.propertyName = "transform"
  /\ lastFocusEvt = "blur"
  /\ BOTTOM_LINE_ACTIVE \in bottomLineClasses

\* C18: both flags are latches: useCustomValidityChecking turns true at
\* setValid and only there, receivedUserInput turns true at a click or
\* keydown handled while the input is enabled and only there, and neither
\* ever goes back.
C18_FlagsAreLatches ==
  [][/\ useCustomValidityChecking_ => useCustomValidityChecking_'
     /\ lastOp'.op = "setValid" => useCustomValidityChecking_'
     /\ useCustomValidityChecking_' # useCustomValidityChecking_
          => lastOp'.op = "setValid"
     /\ receivedUserInput_ = "true" => receivedUserInput_' = "true"
     /\ (lastOp'.op = "interaction" /\ ~inputDisabled) => receivedUserInput_' = "true"
     /\ receivedUserInput_' # receivedUserInput_
          => (lastOp'.op = "interaction" /\ ~inputDisabled)]_vars

\* C19: focus, blur, transition-end, click/keydown and setValid leave the
\* disabled class, the icon tabindex and the input's disabled state alone;
\* setDisabled leaves the focused and invalid classes, the bottom line and
\* the help text's attributes alone; setValid leaves the focused class and
\* the bottom line alone.
C19_AxesIndependent ==
  [][/\ lastOp'.op \in {"focus", "blur", "transitionEnd", "interaction", "setValid"}
          => /\ (DISABLED \in rootClasses') <=> (DISABLED \in rootClasses)
             /\ UNCHANGED <<iconTabindex, inputDisabled>>
     /\ lastOp'.op = "setDisabled"
          => /\ (FOCUSED \in rootClasses') <=> (FOCUSED \in rootClasses)
             /\ (INVALID \in rootClasses') <=> (INVALID \in rootClasses)
             /\ UNCHANGED <<bottomLineClasses, helptextAttrs>>
     /\ lastOp'.op = "setValid"
          => /\ (FOCUSED \in rootClasses') <=> (FOCUSED \in rootClasses)
             /\ UNCHANGED bottomLineClasses]_vars

\* A focused, invalid field with an active bottom line and a visible alert
\* has been disabled, and kept all of that.
C19_Witness ==
  /\ lastOp.op = "setDisabled" /\ lastOp.arg
  /\ {FOCUSED, INVALID, DISABLED} \subseteq rootClasses
  /\ BOTTOM_LINE_ACTIVE \in bottomLineClasses
  /\ helptextAttrs = [a \in {ARIA_HIDDEN, ROLE} |-> IF a = ROLE THEN "alert" ELSE "none"]

\* C20: the help text has role alert only while the host has the invalid
\* class, and the role and the invalid class change only in a step that
\* runs the validity-change procedure.
C20_AlertOnlyWhenInvalid ==
  /\ [](helptextAttrs[ROLE] = "alert" => INVALID \in rootClasses)
  /\ [][(\/ helptextAttrs'[ROLE] # helptextAttrs[ROLE]
         \/ (INVALID \in rootClasses') # (INVALID \in rootClasses))
          => CountCalls(trace', "changeValidity") > 0]_vars

\* An alert set by an invalid blur is still there, on an invalid field,
\* after a later focus.
C20_Witness ==
  /\ lastOp.op = "focus"
  /\ helptextAttrs[ROLE] = "alert"
  /\ INVALID \in rootClasses
  /\ ~useCustomValidityChecking_

====
